---------------------------- MODULE Spec2Model ----------------------------
(***************************************************************************)
(* A model of lust, a small Lisp interpreter: the expression evaluator of  *)
(* src/src/lisp/expr.rs and the streaming reader and read-eval-print loop  *)
(* of src/src/lisp/read.rs.                                                *)
(*                                                                         *)
(* Results of eval and call are records [out, env, log], where out is the  *)
(* Result<i64, EvalError> (or a panic), env the environment left behind,   *)
(* and log the evaluations made, in the order they started.  Results of    *)
(* the read functions are records carrying the stream position reached.    *)
(***************************************************************************)
EXTENDS Integers, Sequences, FiniteSets, TLC

VARIABLES input, pos, env, pc, last, out, ops

vars == <<input, pos, env, pc, last, out, ops>>

(***************************************************************************)
(* Bounds of the model.                                                    *)
(***************************************************************************)
MaxArgs == 3
MaxOps == 2
MaxLen == 4

RECURSIVE eval(_, _, _)
RECURSIVE Add_fold(_, _, _, _, _, _)
RECURSIVE DebugFmt(_)
RECURSIVE DebugFmtArgs(_, _)
RECURSIVE parse_fold(_, _, _, _)
RECURSIVE Join(_)
RECURSIVE read_number_loop(_, _, _)
RECURSIVE read_function_name_loop(_, _, _)
RECURSIVE read_function_params_loop(_, _, _, _)
RECURSIVE read_expr(_, _)
RECURSIVE NatChars(_)
RECURSIVE Render(_)
RECURSIVE RenderArgs(_, _)

(***************************************************************************)
(* expr.rs: expressions, results and the environment.                      *)
(***************************************************************************)
Literal(v) == [type |-> "Literal", val |-> v]

Reference(n) == [type |-> "Reference", name |-> n]

Call(f, a) == [type |-> "Call", function |-> f, args |-> a]

Ok(v) == [kind |-> "Ok", val |-> v, name |-> ""]

UndefinedName(n) == [kind |-> "Err", val |-> 0, name |-> n]

\* args[i] on a Vec of length n < i + 1: the index is out of bounds and the thread panics
IndexPanic(i, n) == [kind |-> "Panic", val |-> i, name |-> "index out of bounds"]

\* HashMap<String, i64>: a set of <<name, value>> pairs, at most one per name
Environment_new == {}

\* a lookup that answers 0 for a name that was never set
Environment_get_default(e, name) ==
    IF \E b \in e : b[1] = name
    THEN Ok((CHOOSE b \in e : b[1] = name)[2])
    ELSE Ok(0)

Environment_get(e, name) ==
    IF \E b \in e : b[1] = name
    THEN Ok((CHOOSE b \in e : b[1] = name)[2])
    ELSE UndefinedName(name)

\* an insert that keeps the binding a name already has
Environment_set_keep(e, name, val) ==
    [env |-> IF \E b \in e : b[1] = name THEN e ELSE e \cup {<<name, val>>},
     val |-> val]

Environment_set(e, name, val) ==
    [env |-> {b \in e : b[1] # name} \cup {<<name, val>>}, val |-> val]

\* the {:?} rendering of an expression, as #[derive(Debug)] writes it
DebugFmtArgs(args, i) ==
    IF i > Len(args) THEN ""
    ELSE (IF i > 1 THEN ", " ELSE "") \o DebugFmt(args[i]) \o DebugFmtArgs(args, i + 1)

DebugFmt(e) ==
    CASE e.type = "Literal" -> "Literal { val: " \o ToString(e.val) \o " }"
      [] e.type = "Reference" -> "Reference { name: \"" \o e.name \o "\" }"
      [] e.type = "Call" ->
            "Call { function: " \o e.function \o ", args: ["
                \o DebugFmtArgs(e.args, 1) \o "] }"

Literal_lvalue(e) == UndefinedName(ToString(e.val))

Reference_lvalue(e) == Ok(0) @@ [lvalue |-> e.name]

Call_lvalue(e) ==
    UndefinedName("(" \o e.function \o " [" \o DebugFmtArgs(e.args, 1) \o "])")

lvalue(e) ==
    CASE e.type = "Literal" -> Literal_lvalue(e) @@ [lvalue |-> ""]
      [] e.type = "Reference" -> Reference_lvalue(e)
      [] e.type = "Call" -> Call_lvalue(e) @@ [lvalue |-> ""]

\* one record of the log: the evaluation of the node at path, started in
\* environment e, ended with outcome o
Entry(path, e, o) == [path |-> path, env |-> e, out |-> o]

Literal_eval(e, en) == [out |-> Ok(e.val), env |-> en, log |-> <<>>]

Reference_eval(e, en) == [out |-> Environment_get(en, e.name), env |-> en, log |-> <<>>]

\* the closure of Add::call: try!(acc) returns before expr.eval is reached
Add_fold(args, i, acc, en, path, log) ==
    IF i > Len(args) THEN [out |-> acc, env |-> en, log |-> log]
    ELSE IF acc.kind # "Ok" THEN Add_fold(args, i + 1, acc, en, path, log)
    ELSE LET r == eval(args[i], en, path \o <<i - 1>>)
         IN  Add_fold(args, i + 1,
                      IF r.out.kind = "Ok" THEN Ok(acc.val + r.out.val) ELSE r.out,
                      r.env, path, log \o r.log)

\* a fold seeded at 1
Add_call_seed1(args, en, path) == Add_fold(args, 1, Ok(1), en, path, <<>>)

Add_call(args, en, path) == Add_fold(args, 1, Ok(0), en, path, <<>>)

\* an If that checks its argument count and fails with an EvalError
If_call_checked(args, en, path) ==
    IF Len(args) < 3
    THEN [out |-> UndefinedName("if"), env |-> en, log |-> <<>>]
    ELSE LET c == eval(args[1], en, path \o <<0>>)
         IN  IF c.out.kind # "Ok" THEN c
             ELSE LET b == eval(args[IF c.out.val # 0 THEN 2 ELSE 3], c.env,
                                path \o <<IF c.out.val # 0 THEN 1 ELSE 2>>)
                  IN  [out |-> b.out, env |-> b.env, log |-> c.log \o b.log]

\* an If that evaluates the then-branch for its effects before the else-branch
If_call_eager(args, en, path) ==
    IF Len(args) < 1
    THEN [out |-> IndexPanic(0, Len(args)), env |-> en, log |-> <<>>]
    ELSE LET c == eval(args[1], en, path \o <<0>>)
         IN  IF c.out.kind # "Ok" THEN c
             ELSE IF Len(args) < 2
             THEN [out |-> IndexPanic(1, Len(args)), env |-> c.env, log |-> c.log]
             ELSE LET t == eval(args[2], c.env, path \o <<1>>)
                  IN  IF c.out.val # 0
                      THEN [out |-> t.out, env |-> t.env, log |-> c.log \o t.log]
                      ELSE IF Len(args) < 3
                      THEN [out |-> IndexPanic(2, Len(args)), env |-> t.env,
                            log |-> c.log \o t.log]
                      ELSE LET f == eval(args[3], t.env, path \o <<2>>)
                           IN  [out |-> f.out, env |-> f.env,
                                log |-> c.log \o t.log \o f.log]

If_call(args, en, path) ==
    IF Len(args) < 1
    THEN [out |-> IndexPanic(0, Len(args)), env |-> en, log |-> <<>>]
    ELSE LET c == eval(args[1], en, path \o <<0>>)
         IN  IF c.out.kind # "Ok" THEN c
             ELSE IF c.out.val # 0
             THEN IF Len(args) < 2
                  THEN [out |-> IndexPanic(1, Len(args)), env |-> c.env, log |-> c.log]
                  ELSE LET t == eval(args[2], c.env, path \o <<1>>)
                       IN  [out |-> t.out, env |-> t.env, log |-> c.log \o t.log]
             ELSE IF Len(args) < 3
                  THEN [out |-> IndexPanic(2, Len(args)), env |-> c.env, log |-> c.log]
                  ELSE LET f == eval(args[3], c.env, path \o <<2>>)
                       IN  [out |-> f.out, env |-> f.env, log |-> c.log \o f.log]

Set_call(args, en, path) ==
    IF Len(args) < 1
    THEN [out |-> IndexPanic(0, Len(args)), env |-> en, log |-> <<>>]
    ELSE LET lv == lvalue(args[1])
         IN  IF lv.kind # "Ok"
             THEN [out |-> UndefinedName(lv.name), env |-> en, log |-> <<>>]
             ELSE IF Len(args) < 2
             THEN [out |-> IndexPanic(1, Len(args)), env |-> en, log |-> <<>>]
             ELSE LET v == eval(args[2], en, path \o <<1>>)
                  IN  IF v.out.kind # "Ok" THEN v
                      ELSE LET s == Environment_set(v.env, lv.lvalue, v.out.val)
                           IN  [out |-> Ok(s.val), env |-> s.env, log |-> v.log]

Call_eval(e, en, path) ==
    CASE e.function = "Add" -> Add_call(e.args, en, path)
      [] e.function = "If" -> If_call(e.args, en, path)
      [] e.function = "Set" -> Set_call(e.args, en, path)

\* the evaluation of the node at path is put on record ahead of those it made
Logged(path, en, r) == [r EXCEPT !.log = <<Entry(path, en, r.out)>> \o r.log]

eval(e, en, path) ==
    Logged(path, en, CASE e.type = "Literal" -> Literal_eval(e, en)
                       [] e.type = "Reference" -> Reference_eval(e, en)
                       [] e.type = "Call" -> Call_eval(e, en, path))

(***************************************************************************)
(* read.rs: the character stream.  An item is Ok(char), written as the     *)
(* one-character string, or Err(io::Error), written IoError.  The stream   *)
(* is the sequence s of all its items and p the number of items taken from *)
(* it: Peekable::peek looks at item p + 1, Peekable::next takes it.        *)
(***************************************************************************)
IoError == "io::Error"

IsErr(item) == item = IoError

None == [some |-> FALSE, item |-> ""]

Some(item) == [some |-> TRUE, item |-> item]

peek(s, p) == IF p < Len(s) THEN Some(s[p + 1]) ELSE None

next(s, p) ==
    IF p < Len(s) THEN Some(s[p + 1]) @@ [pos |-> p + 1] ELSE None @@ [pos |-> p]

Digits == {"0", "1", "2", "3", "4", "5", "6", "7", "8", "9"}

DigitVal(c) ==
    CASE c = "0" -> 0 [] c = "1" -> 1 [] c = "2" -> 2 [] c = "3" -> 3 [] c = "4" -> 4
      [] c = "5" -> 5 [] c = "6" -> 6 [] c = "7" -> 7 [] c = "8" -> 8 [] c = "9" -> 9

\* a String built by push, as the text it holds
Join(buf) == IF buf = <<>> THEN "" ELSE Head(buf) \o Join(Tail(buf))

\* ReadError values and the Ok results of the read functions; every result
\* carries the stream position reached and the lines println! wrote
ReadError(kind, msg, p, printed) ==
    [kind |-> kind, msg |-> msg, pos |-> p, printed |-> printed]

Io(item, p, printed) == ReadError("Io", item, p, printed)

Invalid(msg, p, printed) == ReadError("Invalid", msg, p, printed)

Parse(msg, p, printed) == ReadError("Parse", msg, p, printed)

Eof(p, printed) == ReadError("Eof", "", p, printed)

ReadPanic(msg, p, printed) == ReadError("Panic", msg, p, printed)

\* the try_peek! macro that swallows a stream error and answers None
try_peek_swallow(s, p) ==
    LET pk == peek(s, p)
    IN  IF pk.some /\ ~IsErr(pk.item)
        THEN [tag |-> "Some", c |-> pk.item, pos |-> p]
        ELSE [tag |-> "None", c |-> "", pos |-> next(s, p).pos]

\* the try_peek! macro: Some(c), None, an early return of Err(Io), or a panic
try_peek(s, p) ==
    LET pk == peek(s, p)
        stupid_rust == IF pk.some /\ ~IsErr(pk.item) THEN Some(pk.item) ELSE None
    IN  IF stupid_rust.some
        THEN [tag |-> "Some", c |-> stupid_rust.item, pos |-> p]
        ELSE LET nx == next(s, p)
             IN  IF nx.some /\ IsErr(nx.item)
                 THEN [tag |-> "Return", c |-> nx.item, pos |-> nx.pos]
                 ELSE IF ~nx.some
                 THEN [tag |-> "None", c |-> "", pos |-> nx.pos]
                 ELSE [tag |-> "Panic", c |-> "peek and next disagree", pos |-> nx.pos]

\* i64::MAX as its decimal digits; i64::MIN has the same digits but a last 8
I64MaxDigits == <<9, 2, 2, 3, 3, 7, 2, 0, 3, 6, 8, 5, 4, 7, 7, 5, 8, 0, 7>>

\* the digits (with any leading zeros) denote a value outside i64
Overflows(neg, digits) ==
    LET nz == {i \in 1..Len(digits) : digits[i] # "0"}
        first == IF nz = {} THEN Len(digits) + 1 ELSE CHOOSE i \in nz : \A j \in nz : i <= j
        sig == SubSeq(digits, first, Len(digits))
        lim == [I64MaxDigits EXCEPT ![Len(I64MaxDigits)] = IF neg THEN 8 ELSE 7]
        diff == {i \in 1..Len(sig) : DigitVal(sig[i]) # lim[i]}
    IN  \/ Len(sig) > Len(lim)
        \/ /\ Len(sig) = Len(lim)
           /\ diff # {}
           /\ LET d == CHOOSE i \in diff : \A j \in diff : i <= j
              IN  DigitVal(sig[d]) > lim[d]

\* the digit loop of i64::from_str: result * 10 + d, or - d for a negative
parse_fold(digits, i, acc, neg) ==
    IF i > Len(digits) THEN acc
    ELSE parse_fold(digits, i + 1,
                    IF neg THEN acc * 10 - DigitVal(digits[i])
                    ELSE acc * 10 + DigitVal(digits[i]),
                    neg)

\* buf.parse::<i64>(): an optional sign, then at least one digit, in range
parse(buf) ==
    IF buf = <<>> THEN [ok |-> FALSE, val |-> 0, msg |-> "ParseIntError"]
    ELSE LET neg == Head(buf) = "-"
             digits == IF Head(buf) \in {"-", "+"} THEN Tail(buf) ELSE buf
         IN  IF \/ digits = <<>>
                \/ \E i \in 1..Len(digits) : digits[i] \notin Digits
                \/ Overflows(neg, digits)
             THEN [ok |-> FALSE, val |-> 0, msg |-> "ParseIntError"]
             ELSE [ok |-> TRUE, val |-> parse_fold(digits, 1, 0, neg), msg |-> ""]

\* a read_number that takes the terminating ' ' or ')' off the stream
read_number_loop_eat(s, p, buf) ==
    LET tp == try_peek(s, p)
    IN  CASE tp.tag = "Return" -> Io(tp.c, tp.pos, <<>>)
          [] tp.tag = "Panic" -> ReadPanic(tp.c, tp.pos, <<>>)
          [] tp.tag = "None" -> Eof(next(s, tp.pos).pos, <<>>)
          [] tp.tag = "Some" /\ tp.c = "-" ->
                IF Len(buf) + 1 > 1
                THEN Invalid("invalid number " \o Join(Append(buf, tp.c)),
                             next(s, p).pos, <<>>)
                ELSE read_number_loop(s, next(s, p).pos, Append(buf, tp.c))
          [] tp.tag = "Some" /\ tp.c \in Digits ->
                read_number_loop(s, next(s, p).pos, Append(buf, tp.c))
          [] tp.tag = "Some" /\ tp.c \in {" ", ")"} ->
                LET v == parse(buf)
                IN  IF v.ok THEN [kind |-> "Ok", val |-> v.val, pos |-> next(s, p).pos,
                                  printed |-> <<>>]
                    ELSE Parse(v.msg, next(s, p).pos, <<>>)
          [] OTHER ->
                Invalid("Invalid input '" \o tp.c \o "'", next(s, p).pos, <<>>)

\* the loop of read_number, entered with the characters pushed so far
read_number_loop(s, p, buf) ==
    LET tp == try_peek(s, p)
    IN  CASE tp.tag = "Return" -> Io(tp.c, tp.pos, <<>>)
          [] tp.tag = "Panic" -> ReadPanic(tp.c, tp.pos, <<>>)
          [] tp.tag = "None" -> Eof(next(s, tp.pos).pos, <<>>)
          [] tp.tag = "Some" /\ tp.c = "-" ->
                IF Len(buf) + 1 > 1
                THEN Invalid("invalid number " \o Join(Append(buf, tp.c)),
                             next(s, p).pos, <<>>)
                ELSE read_number_loop(s, next(s, p).pos, Append(buf, tp.c))
          [] tp.tag = "Some" /\ tp.c \in Digits ->
                read_number_loop(s, next(s, p).pos, Append(buf, tp.c))
          [] tp.tag = "Some" /\ tp.c \in {" ", ")"} ->
                LET v == parse(buf)
                IN  IF v.ok THEN [kind |-> "Ok", val |-> v.val, pos |-> p, printed |-> <<>>]
                    ELSE Parse(v.msg, p, <<>>)
          [] OTHER ->
                Invalid("Invalid input '" \o tp.c \o "'", next(s, p).pos, <<>>)

read_number(s, p) == read_number_loop(s, p, <<>>)

\* the for loop of read_function_name and the match on the name it collected
read_function_name_loop(s, p, name) ==
    LET nx == next(s, p)
        done == ~nx.some \/ nx.item = " "
    IN  IF nx.some /\ IsErr(nx.item) THEN Io(nx.item, nx.pos, <<>>)
        ELSE IF ~done THEN read_function_name_loop(s, nx.pos, name \o nx.item)
        ELSE CASE name = "+" ->
                    [kind |-> "Ok", function |-> "Add", pos |-> nx.pos, printed |-> <<>>]
               [] name = "if" ->
                    [kind |-> "Ok", function |-> "If", pos |-> nx.pos, printed |-> <<>>]
               [] OTHER -> Invalid("Unknown function '" \o name \o "'", nx.pos, <<>>)

read_function_name(s, p) == read_function_name_loop(s, p, "")

\* a read_function_params that collects the parameters last to first
read_function_params_loop_rev(s, p, params, printed) ==
    LET tp == try_peek(s, p)
        pr == IF tp.tag = "Some"
              THEN Append(printed, "Reading param starting with " \o tp.c)
              ELSE printed
    IN  CASE tp.tag = "Return" -> Io(tp.c, tp.pos, pr)
          [] tp.tag = "Panic" -> ReadPanic(tp.c, tp.pos, pr)
          [] tp.tag = "None" -> Eof(tp.pos, pr)
          [] tp.tag = "Some" /\ tp.c \in Digits \cup {"-"} ->
                LET n == read_number(s, p)
                IN  IF n.kind # "Ok" THEN [n EXCEPT !.printed = pr]
                    ELSE read_function_params_loop(s, n.pos,
                                                   <<Literal(n.val)>> \o params, pr)
          [] tp.tag = "Some" /\ tp.c = "(" ->
                LET e == read_expr(s, p)
                IN  IF e.kind # "Ok" THEN [e EXCEPT !.printed = pr \o e.printed]
                    ELSE read_function_params_loop(s, e.pos, <<e.expr>> \o params,
                                                   pr \o e.printed)
          [] tp.tag = "Some" /\ tp.c = " " ->
                read_function_params_loop(s, next(s, p).pos, params, pr)
          [] tp.tag = "Some" /\ tp.c = ")" ->
                [kind |-> "Ok", params |-> params, pos |-> next(s, p).pos, printed |-> pr]
          [] OTHER ->
                Invalid("Invalid input '" \o tp.c \o "'", next(s, p).pos, pr)

\* the loop of read_function_params, entered with the parameters read so far
\* (its String acc is pushed to and never read)
read_function_params_loop(s, p, params, printed) ==
    LET tp == try_peek(s, p)
        pr == IF tp.tag = "Some"
              THEN Append(printed, "Reading param starting with " \o tp.c)
              ELSE printed
    IN  CASE tp.tag = "Return" -> Io(tp.c, tp.pos, pr)
          [] tp.tag = "Panic" -> ReadPanic(tp.c, tp.pos, pr)
          [] tp.tag = "None" -> Eof(tp.pos, pr)
          [] tp.tag = "Some" /\ tp.c \in Digits \cup {"-"} ->
                LET n == read_number(s, p)
                IN  IF n.kind # "Ok" THEN [n EXCEPT !.printed = pr]
                    ELSE read_function_params_loop(s, n.pos,
                                                   Append(params, Literal(n.val)), pr)
          [] tp.tag = "Some" /\ tp.c = "(" ->
                LET e == read_expr(s, p)
                IN  IF e.kind # "Ok" THEN [e EXCEPT !.printed = pr \o e.printed]
                    ELSE read_function_params_loop(s, e.pos, Append(params, e.expr),
                                                   pr \o e.printed)
          [] tp.tag = "Some" /\ tp.c = " " ->
                read_function_params_loop(s, next(s, p).pos, params, pr)
          [] tp.tag = "Some" /\ tp.c = ")" ->
                [kind |-> "Ok", params |-> params, pos |-> next(s, p).pos, printed |-> pr]
          [] OTHER ->
                Invalid("Invalid input '" \o tp.c \o "'", next(s, p).pos, pr)

read_function_params(s, p) == read_function_params_loop(s, p, <<>>, <<>>)

read_expr(s, p) ==
    LET pk == peek(s, p)
    IN  IF ~pk.some THEN Eof(p, <<>>)
        ELSE IF IsErr(pk.item)
        THEN LET nx == next(s, p)
             IN  IF ~nx.some THEN ReadPanic("Input disappeared!", nx.pos, <<>>)
                 ELSE IF ~IsErr(nx.item) THEN ReadPanic("Error disappeared!", nx.pos, <<>>)
                 ELSE Io(nx.item, nx.pos, <<>>)
        ELSE LET c == pk.item
             IN  CASE c = "(" ->
                        LET f == read_function_name(s, next(s, p).pos)
                        IN  IF f.kind # "Ok" THEN f
                            ELSE LET ps == read_function_params(s, f.pos)
                                 IN  IF ps.kind # "Ok" THEN ps
                                     ELSE [kind |-> "Ok",
                                           expr |-> Call(f.function, ps.params),
                                           pos |-> ps.pos, printed |-> ps.printed]
                   [] c \in Digits \cup {"+", "-"} ->
                        LET n == read_number(s, p)
                        IN  IF n.kind # "Ok" THEN n
                            ELSE [kind |-> "Ok", expr |-> Literal(n.val),
                                  pos |-> n.pos, printed |-> <<>>]
                   [] c \in {" ", "\n", "\r"} -> read_expr(s, next(s, p).pos)
                   [] OTHER ->
                        Invalid("Invalid input '" \o c \o "'", next(s, p).pos, <<>>)

(***************************************************************************)
(* The expressions the evaluator is driven with: every call of up to       *)
(* MaxArgs arguments over the leaves and a few inner calls: two that       *)
(* assign, one that fails where foo is unset and panics where it is set,   *)
(* and one that adds to bar.                                               *)
(***************************************************************************)
LitVals == {-1, 0, 1}

\* the values the tests set names to
SetVals == {0, 1}

Names == {"foo", "bar"}

Functions == {"Add", "If", "Set"}

SeqsUpTo(S, n) == UNION {[1..k -> S] : k \in 0..n}

Leaves == {Literal(v) : v \in LitVals} \cup {Reference(n) : n \in Names}

Inner ==
    { Call("Set", <<Reference("foo"), Literal(1)>>),
      Call("Set", <<Reference("bar"), Literal(2)>>),
      Call("If", <<Reference("foo")>>),
      Call("Add", <<Reference("bar"), Literal(1)>>) }

Exprs == Leaves \cup {Call(f, a) : f \in Functions, a \in SeqsUpTo(Leaves \cup Inner, MaxArgs)}

NoLast ==
    [op |-> "none", expr |-> Literal(0), name |-> "", val |-> 0,
     envBefore |-> {}, out |-> Ok(0), log |-> <<>>]

(***************************************************************************)
(* The evaluator driven as the tests of expr.rs drive it: an environment   *)
(* made by Environment::new, up to MaxOps calls of set, then one get or    *)
(* the eval of one expression.  last records the call made, and for get    *)
(* and eval the environment it started in.                                 *)
(***************************************************************************)
InitEval ==
    /\ input = <<>>
    /\ pos = 0
    /\ env = Environment_new
    /\ pc = "test"
    /\ last = NoLast
    /\ out = <<>>
    /\ ops = 0

DoSet(n, v) ==
    /\ pc = "test" /\ ops < MaxOps
    /\ LET s == Environment_set(env, n, v)
       IN  /\ env' = s.env
           /\ last' = [NoLast EXCEPT !.op = "set", !.name = n, !.val = v,
                                     !.out = Ok(s.val)]
    /\ ops' = ops + 1
    /\ UNCHANGED <<input, pos, pc, out>>

DoGet(n) ==
    /\ pc = "test"
    /\ last' = [NoLast EXCEPT !.op = "get", !.name = n, !.envBefore = env,
                              !.out = Environment_get(env, n)]
    /\ pc' = "done"
    /\ UNCHANGED <<input, pos, env, out, ops>>

Evaluation(e, r) ==
    /\ env' = r.env
    /\ last' = [NoLast EXCEPT !.op = "eval", !.expr = e, !.envBefore = env,
                              !.out = r.out, !.log = r.log]

DoEval(e) ==
    /\ pc = "test"
    /\ Evaluation(e, eval(e, env, <<>>))
    /\ pc' = "done"
    /\ UNCHANGED <<input, pos, out, ops>>

\* a test makes its calls until it has made its get or its eval
NextEval ==
    \/ pc = "test" /\ \E n \in Names, v \in SetVals : DoSet(n, v)
    \/ pc = "test" /\ \E n \in Names : DoGet(n)
    \/ pc = "test" /\ \E e \in Exprs : DoEval(e)

SpecEval == InitEval /\ [][NextEval]_vars

(***************************************************************************)
(* The texts the reader is driven with: every stream of up to MaxLen items *)
(* over Alphabet, and the texts of calls as the grammar writes them (a     *)
(* parenthesis, the function name, one space, the parameters with one      *)
(* space between them, a parenthesis), for calls of up to MaxArgs          *)
(* parameters, whole (with something after them), cut off at every point   *)
(* and cut off by a stream error.  SourceTrees are the texts the tests of  *)
(* read.rs read.                                                           *)
(***************************************************************************)
Alphabet == {"(", ")", " ", "-", "+", "0", "1", "a", "\n", IoError}

AllStreams == SeqsUpTo(Alphabet, MaxLen)

DigitChar(d) ==
    CASE d = 0 -> "0" [] d = 1 -> "1" [] d = 2 -> "2" [] d = 3 -> "3" [] d = 4 -> "4"
      [] d = 5 -> "5" [] d = 6 -> "6" [] d = 7 -> "7" [] d = 8 -> "8" [] d = 9 -> "9"

NatChars(n) ==
    IF n < 10 THEN <<DigitChar(n)>> ELSE Append(NatChars(n \div 10), DigitChar(n % 10))

FunctionName(f) == IF f = "Add" THEN <<"+">> ELSE <<"i", "f">>

RenderArgs(args, i) ==
    IF i > Len(args) THEN <<>>
    ELSE (IF i > 1 THEN <<" ">> ELSE <<>>) \o Render(args[i]) \o RenderArgs(args, i + 1)

\* the text of an expression
Render(e) ==
    IF e.type = "Literal"
    THEN IF e.val < 0 THEN <<"-">> \o NatChars(-e.val) ELSE NatChars(e.val)
    ELSE <<"(">> \o FunctionName(e.function) \o <<" ">> \o RenderArgs(e.args, 1) \o <<")">>

ReadLeaves == {Literal(v) : v \in {-1, 0, 1}}

ReadInner ==
    { Call("Add", <<Literal(1), Literal(-1)>>),
      Call("Add", <<Literal(1), Literal(1)>>) }

SourceTrees ==
    { Call("Add", <<Literal(1), Literal(2)>>),
      Call("Add", <<Literal(1), Call("Add", <<Literal(1), Literal(1)>>)>>),
      Call("If", <<Call("Add", <<Literal(1), Literal(1)>>), Literal(1), Literal(2)>>),
      Call("If", <<Call("Add", <<Literal(1), Literal(-1)>>), Literal(1),
                   Call("Add", <<Literal(2), Literal(3)>>)>>) }

ReadCalls ==
    SourceTrees \cup
    {Call(f, a) : f \in {"Add", "If"}, a \in SeqsUpTo(ReadLeaves \cup ReadInner, MaxArgs)}

\* each call with its text
CallTexts == {<<Render(t), t>> : t \in ReadCalls}

CallTextSet == {c[1] : c \in CallTexts}

TreeOf(w) == (CHOOSE c \in CallTexts : c[1] = w)[2]

\* what may follow an expression in the stream
Suffixes == {<<>>, <<")">>, <<" ", "1">>, <<IoError>>}

WellFormed ==
    {Render(t) : t \in ReadCalls \cup ReadLeaves \cup {Literal(10), Literal(-10)}}

ProperPrefixes ==
    UNION {{lead \o SubSeq(w, 1, k) : k \in 0..(Len(w) - 1), lead \in {<<>>, <<"\n">>}}
           : w \in WellFormed}

\* a text cut off by a stream error, with an item after the error
Broken == {w \o <<IoError, "1">> : w \in ProperPrefixes}

Streams ==
    AllStreams \cup ProperPrefixes \cup Broken
        \cup {c[1] \o suf : c \in CallTexts, suf \in Suffixes}

NoRead == [op |-> "none", from |-> 0, res |-> Eof(0, <<>>), ev |-> Literal_eval(Literal(0), {})]

(***************************************************************************)
(* The reader driven as the tests of read.rs drive it: a stream, then one  *)
(* call of a read function on it.                                          *)
(***************************************************************************)
InitRead ==
    /\ input \in Streams
    /\ pos = 0
    /\ env = Environment_new
    /\ pc = "read"
    /\ last = NoRead
    /\ out = <<>>
    /\ ops = 0

Read(op, r) ==
    /\ pc = "read"
    /\ last' = [NoRead EXCEPT !.op = op, !.from = pos, !.res = r]
    /\ pos' = r.pos
    /\ out' = out \o r.printed
    /\ pc' = "done"
    /\ UNCHANGED <<input, env, ops>>

ReadExpr == Read("read_expr", read_expr(input, pos))

ReadFunctionName == Read("read_function_name", read_function_name(input, pos))

ReadFunctionParams == Read("read_function_params", read_function_params(input, pos))

ReadNumber == Read("read_number", read_number(input, pos))

NextRead == ReadExpr \/ ReadFunctionName \/ ReadFunctionParams \/ ReadNumber

SpecRead == InitRead /\ [][NextRead]_vars

(***************************************************************************)
(* read.rs: repl.  One action is one turn of its loop: read_expr, then the *)
(* match on its result with the eval and the println! it holds.  A panic   *)
(* of eval unwinds out of repl.                                            *)
(***************************************************************************)
ReadError_fmt(r) ==
    CASE r.kind = "Io" -> "IO error: " \o r.msg
      [] r.kind = "Parse" -> "Parse error: " \o r.msg
      [] r.kind = "Invalid" -> "Invalid input: " \o r.msg
      [] r.kind = "Eof" -> "End of file"

EvalError_fmt(o) == "No such name in environment: " \o o.name

InitRepl ==
    /\ input \in Streams
    /\ pos = 0
    /\ env = Environment_new
    /\ pc = "repl"
    /\ last = NoRead
    /\ out = <<>>
    /\ ops = 0

\* Ok(expr) => match expr.eval(&env): the evaluation a turn makes, if any
repl_eval(r) == IF r.kind = "Ok" THEN eval(r.expr, env, <<>>) ELSE NoRead.ev

\* the match of repl on the result r of read_expr and the result v of eval
repl_match(r, v) ==
    /\ last' = [op |-> "repl", from |-> pos, res |-> r, ev |-> v]
    /\ pos' = r.pos
    /\ env' = IF r.kind = "Ok" THEN v.env ELSE env
    /\ pc' = CASE r.kind = "Eof" -> "returned"
               [] r.kind = "Panic" -> "panicked"
               [] r.kind = "Ok" /\ v.out.kind = "Panic" -> "panicked"
               [] OTHER -> "repl"
    /\ out' = out \o r.printed \o
              CASE r.kind = "Ok" /\ v.out.kind = "Ok" -> <<ToString(v.out.val)>>
                [] r.kind = "Ok" /\ v.out.kind = "Err" ->
                      <<"Error: " \o EvalError_fmt(v.out)>>
                [] r.kind \in {"Io", "Parse", "Invalid"} ->
                      <<"Error: " \o ReadError_fmt(r)>>
                [] OTHER -> <<>>

repl_turn(r) == repl_match(r, repl_eval(r))

repl ==
    /\ pc = "repl"
    /\ repl_turn(read_expr(input, pos))
    /\ UNCHANGED <<input, ops>>

SpecRepl == InitRepl /\ [][repl]_vars


(***************************************************************************)
(* Properties of the evaluator.                                            *)
(***************************************************************************)
RECURSIVE NodeAt(_, _)
RECURSIVE SumOuts(_, _)

\* the subexpression of e at path (a path lists argument positions, from 0)
NodeAt(e, path) ==
    IF path = <<>> THEN e ELSE NodeAt(e.args[Head(path) + 1], Tail(path))

Evaluated(log, path) == \E i \in 1..Len(log) : log[i].path = path

EntryOf(log, path) == log[CHOOSE i \in 1..Len(log) : log[i].path = path]

IndexOf(log, path) == CHOOSE i \in 1..Len(log) : log[i].path = path

\* some node at or below path was evaluated
EvaluatedBelow(log, path) ==
    \E i \in 1..Len(log) :
        /\ Len(log[i].path) >= Len(path)
        /\ SubSeq(log[i].path, 1, Len(path)) = path

\* the environment the evaluation of argument i (from 0) left behind
EnvAfterArg(args, log, i) == eval(args[i + 1], EntryOf(log, <<i>>).env, <<i>>).env

SumOuts(log, k) ==
    IF k = 0 THEN 0 ELSE EntryOf(log, <<k - 1>>).out.val + SumOuts(log, k - 1)

LastIsCall(f) ==
    /\ last.op = "eval"
    /\ last.expr.type = "Call"
    /\ last.expr.function = f

\* C1: If.call with three arguments evaluates args[0] first; a nonzero value
\* makes it evaluate and return args[1] and never evaluate args[2], zero makes
\* it evaluate and return args[2] and never evaluate args[1], and a failing
\* args[0] leaves both branches unevaluated; the environment and the result
\* are those of the condition followed by the taken branch alone.
C1_IfBranchExclusive ==
    (LastIsCall("If") /\ Len(last.expr.args) = 3) =>
        LET args == last.expr.args
            log == last.log
            c == eval(args[1], last.envBefore, <<0>>)
        IN  /\ Len(log) >= 2
            /\ log[1].path = <<>>
            /\ log[2].path = <<0>>
            /\ log[2].out = c.out
            /\ c.out.kind # "Ok" =>
                  /\ ~EvaluatedBelow(log, <<1>>)
                  /\ ~EvaluatedBelow(log, <<2>>)
                  /\ last.out = c.out
                  /\ env = c.env
            /\ (c.out.kind = "Ok" /\ c.out.val # 0) =>
                  LET t == eval(args[2], c.env, <<1>>)
                  IN  /\ Evaluated(log, <<1>>)
                      /\ ~EvaluatedBelow(log, <<2>>)
                      /\ last.out = t.out
                      /\ env = t.env
            /\ (c.out.kind = "Ok" /\ c.out.val = 0) =>
                  LET f == eval(args[3], c.env, <<2>>)
                  IN  /\ Evaluated(log, <<2>>)
                      /\ ~EvaluatedBelow(log, <<1>>)
                      /\ last.out = f.out
                      /\ env = f.env

\* (if 1 0 (set! bar 2)) and the like in an environment without bar: the
\* non-taken branch would have assigned bar, and bar is still unset
C1_Witness ==
    /\ LastIsCall("If") /\ Len(last.expr.args) = 3
    /\ last.expr.args[1] = Literal(1)
    /\ last.expr.args[3] = Call("Set", <<Reference("bar"), Literal(2)>>)
    /\ last.out.kind = "Ok"
    /\ Environment_get(env, "bar").kind = "Err"

\* C2: Add.call evaluates its arguments left to right against the one
\* environment (each argument starts in the environment the one before it
\* left), returns their sum from 0, and at the first failing argument returns
\* that argument's error with no later argument evaluated and the effects of
\* the earlier ones kept.
C2_AddLeftToRight ==
    LastIsCall("Add") =>
        LET args == last.expr.args
            log == last.log
            n == Len(args)
            done == {i \in 0..(n - 1) : Evaluated(log, <<i>>)}
            k == Cardinality(done)
        IN  /\ done = 0..(k - 1)
            /\ \A i \in done : \A j \in done :
                  i < j => IndexOf(log, <<i>>) < IndexOf(log, <<j>>)
            /\ \A i \in 0..(n - 1) : i \notin done => ~EvaluatedBelow(log, <<i>>)
            /\ k > 0 => EntryOf(log, <<0>>).env = last.envBefore
            /\ \A i \in done :
                  (i + 1) \in done => EntryOf(log, <<i + 1>>).env = EnvAfterArg(args, log, i)
            /\ \A i \in done : i < k - 1 => EntryOf(log, <<i>>).out.kind = "Ok"
            /\ env = IF k = 0 THEN last.envBefore ELSE EnvAfterArg(args, log, k - 1)
            /\ k < n => k > 0 /\ EntryOf(log, <<k - 1>>).out.kind # "Ok"
            /\ IF k > 0 /\ EntryOf(log, <<k - 1>>).out.kind # "Ok"
               THEN last.out = EntryOf(log, <<k - 1>>).out
               ELSE last.out = Ok(SumOuts(log, k))
            /\ n = 0 => last.out = Ok(0)

\* (+ (set! foo 1) bar (set! bar 2)) in the empty environment: bar is unset
\* when the second argument reads it, foo stays assigned, bar is not assigned
C2_Witness ==
    /\ LastIsCall("Add")
    /\ last.expr.args = <<Call("Set", <<Reference("foo"), Literal(1)>>),
                          Reference("bar"),
                          Call("Set", <<Reference("bar"), Literal(2)>>)>>
    /\ last.envBefore = {}
    /\ last.out = UndefinedName("bar")
    /\ env = {<<"foo", 1>>}

\* C3: Set.call takes the name from args[0].lvalue and then evaluates args[1]:
\* for a Reference(n) and a value v it returns v and leaves n bound to v with
\* every other binding as the evaluation of args[1] left it, so Reference(n)
\* then evaluates to v; for a Literal or a Call in args[0] it fails without
\* evaluating args[1] and the environment is unchanged; a failing args[1] is
\* returned as it is and n is not assigned.
C3_SetAssigns ==
    (LastIsCall("Set") /\ Len(last.expr.args) = 2) =>
        LET args == last.expr.args
            log == last.log
        IN  /\ ~EvaluatedBelow(log, <<0>>)
            /\ args[1].type = "Reference" =>
                  LET n == args[1].name
                      v == eval(args[2], last.envBefore, <<1>>)
                  IN  /\ Evaluated(log, <<1>>)
                      /\ v.out.kind = "Ok" =>
                            /\ last.out = Ok(v.out.val)
                            /\ <<n, v.out.val>> \in env
                            /\ \A b \in env : b[1] = n => b[2] = v.out.val
                            /\ {b \in env : b[1] # n} = {b \in v.env : b[1] # n}
                            /\ eval(Reference(n), env, <<>>).out = Ok(v.out.val)
                      /\ v.out.kind # "Ok" =>
                            /\ last.out = v.out
                            /\ env = v.env
            /\ args[1].type # "Reference" =>
                  /\ last.out.kind = "Err"
                  /\ Len(log) = 1
                  /\ env = last.envBefore

\* (set! bar 1) where bar was 0 and foo was set: bar is overwritten, foo kept
C3_Witness ==
    /\ LastIsCall("Set") /\ Len(last.expr.args) = 2
    /\ last.expr.args[1] = Reference("bar")
    /\ <<"bar", 0>> \in last.envBefore
    /\ \E b \in last.envBefore : b[1] = "foo"
    /\ last.out = Ok(1)
    /\ <<"bar", 1>> \in env

\* C4: a name that was not set is looked up as UndefinedName of that very
\* name, never as a value; a Reference to it evaluated anywhere inside Add, If
\* or the value of Set makes the outermost eval return that same error; and
\* after set(name, v), get(name) is v.
C4_UndefinedNamePropagates ==
    /\ last.op = "get" =>
          IF \E b \in last.envBefore : b[1] = last.name
          THEN last.out.kind = "Ok" /\ <<last.name, last.out.val>> \in last.envBefore
          ELSE last.out = UndefinedName(last.name)
    /\ last.op = "set" =>
          /\ last.out = Ok(last.val)
          /\ Environment_get(env, last.name) = Ok(last.val)
    /\ last.op = "eval" =>
          \A i \in 1..Len(last.log) :
              LET en == last.log[i]
                  node == NodeAt(last.expr, en.path)
              IN  node.type = "Reference" =>
                      IF \E b \in en.env : b[1] = node.name
                      THEN en.out.kind = "Ok" /\ <<node.name, en.out.val>> \in en.env
                      ELSE /\ en.out = UndefinedName(node.name)
                           /\ last.out = UndefinedName(node.name)

\* (+ 1 (if foo)) with foo unset: the error of the inner read is the result
C4_Witness ==
    /\ LastIsCall("Add")
    /\ Len(last.expr.args) = 2
    /\ last.expr.args[2] = Call("If", <<Reference("foo")>>)
    /\ Evaluated(last.log, <<1, 0>>)
    /\ Environment_get(EntryOf(last.log, <<1, 0>>).env, "foo").kind = "Err"
    /\ last.out = UndefinedName("foo")

(***************************************************************************)
(* Properties of the reader.                                               *)
(***************************************************************************)
RECURSIVE Pow10(_)
RECURSIVE Den(_)
RECURSIVE DenSum(_, _)

IsPrefix(w, s) == Len(w) <= Len(s) /\ SubSeq(s, 1, Len(w)) = w

Pow10(k) == IF k = 0 THEN 1 ELSE 10 * Pow10(k - 1)

\* the number the digits s[a..b] write in decimal
DecimalValue(s, a, b) ==
    LET term(i) == DigitVal(s[i]) * Pow10(b - i)
        sum[i \in (a - 1)..b] == IF i < a THEN 0 ELSE sum[i - 1] + term(i)
    IN  sum[b]

\* the stream holds, from item p + 1 on, a sign if sign = 1, then n digits,
\* then a ' ' or a ')'
NumberToken(s, p, sign, n) ==
    /\ n >= 1
    /\ p + sign + n + 1 <= Len(s)
    /\ sign = 1 => s[p + 1] = "-"
    /\ \A i \in 1..n : s[p + sign + i] \in Digits
    /\ s[p + sign + n + 1] \in {" ", ")"}

\* C5: on an optional '-', one or more digits (a value inside i64) and then a
\* ' ' or ')', read_number returns the signed decimal value of the token and
\* takes exactly the sign and the digits: the terminator is still the next
\* item of the stream.
C5_ReadNumber ==
    last.op = "read_number" =>
        \A sign \in {0, 1} : \A n \in 1..Len(input) :
            (NumberToken(input, last.from, sign, n) /\ n <= 18) =>
                LET a == last.from + sign + 1
                    b == last.from + sign + n
                    v == DecimalValue(input, a, b)
                IN  /\ last.res.kind = "Ok"
                    /\ last.res.val = IF sign = 1 THEN -v ELSE v
                    /\ last.res.pos = b
                    /\ pos = b
                    /\ next(input, pos).item = input[b + 1]
                    /\ next(input, pos).item \in {" ", ")"}

\* "-10)" read by read_number: -10, and the ')' is the next item
C5_Witness ==
    /\ last.op = "read_number"
    /\ input = <<"-", "1", "0", ")">>
    /\ last.res.kind = "Ok"
    /\ last.res.val = -10
    /\ peek(input, pos) = Some(")")

\* the value of a text by the Add/If semantics: a sum from 0, and for an if
\* of three parameters the second where the first is nonzero, else the third
DenSum(args, i) == IF i > Len(args) THEN 0 ELSE Den(args[i]) + DenSum(args, i + 1)

Den(e) ==
    CASE e.type = "Literal" -> e.val
      [] e.type = "Call" /\ e.function = "Add" -> DenSum(e.args, 1)
      [] e.type = "Call" /\ e.function = "If" ->
            IF Den(e.args[1]) # 0 THEN Den(e.args[2]) ELSE Den(e.args[3])

RECURSIVE HasDen(_)
\* every if of the expression has its three parameters
HasDen(e) ==
    \/ e.type = "Literal"
    \/ /\ e.type = "Call"
       /\ e.function = "If" => Len(e.args) = 3
       /\ \A i \in 1..Len(e.args) : HasDen(e.args[i])

\* the characters of "(+ 1 (+ 1 1))" and of "(if (+ 1 -1) 1 (+ 2 3))"
NestedAddText == <<"(", "+", " ", "1", " ", "(", "+", " ", "1", " ", "1", ")", ")">>

IfZeroText ==
    <<"(", "i", "f", " ", "(", "+", " ", "1", " ", "-", "1", ")", " ", "1", " ",
      "(", "+", " ", "2", " ", "3", ")", ")">>

\* C6: on the text of a call, read_expr returns the Call with the parameters
\* in text order, takes the stream exactly through the ')' that closes the
\* call, and evaluating the tree gives the value of the text.
C6_ReadCall ==
    (last.op = "read_expr" /\ last.from = 0) =>
        /\ \A k \in 1..Len(input) :
              SubSeq(input, 1, k) \in CallTextSet =>
                  LET t == TreeOf(SubSeq(input, 1, k))
                  IN  /\ last.res.kind = "Ok"
                      /\ last.res.expr = t
                      /\ last.res.pos = k
                      /\ pos = k
                      /\ HasDen(t) =>
                            eval(last.res.expr, Environment_new, <<>>).out = Ok(Den(t))
        /\ IsPrefix(NestedAddText, input) =>
              /\ last.res.kind = "Ok"
              /\ eval(last.res.expr, Environment_new, <<>>).out = Ok(3)
        /\ IsPrefix(IfZeroText, input) =>
              /\ last.res.kind = "Ok"
              /\ eval(last.res.expr, Environment_new, <<>>).out = Ok(5)

\* "(if (+ 1 -1) 1 (+ 2 3))" followed by " 1": read through the last ')'
C6_Witness ==
    /\ last.op = "read_expr"
    /\ input = IfZeroText \o <<" ", "1">>
    /\ last.res.kind = "Ok"
    /\ pos = Len(IfZeroText)
    /\ eval(last.res.expr, Environment_new, <<>>).out = Ok(5)

\* C7: a stream that ends in the middle of an expression (a proper prefix of
\* a well-formed one) makes read_expr fail with Eof.
C7_TruncatedIsEof ==
    (last.op = "read_expr" /\ last.from = 0 /\ input \in ProperPrefixes) =>
        last.res.kind = "Eof"

\* the first item after p that ends a function name (a ' ' or a stream
\* error), or one past the end of the stream
NameEnd(s, p) ==
    LET ends == {j \in (p + 1)..Len(s) : s[j] \in {" ", IoError}}
    IN  IF ends = {} THEN Len(s) + 1 ELSE CHOOSE j \in ends : \A k \in ends : j <= k

\* C8: every read ends in an expression or in one of Io, Invalid, Parse, Eof
\* and never in a panic; a stream error among the items a read takes is the
\* last item it takes and is what Io carries; an unknown function name is
\* Invalid naming it; a second '-' in a number is Invalid.
C8_StructuredErrors ==
    last.op \in {"read_expr", "read_function_name", "read_function_params", "read_number"} =>
        LET r == last.res
            errs == {i \in (last.from + 1)..r.pos : IsErr(input[i])}
        IN  /\ r.kind \in {"Ok", "Io", "Invalid", "Parse", "Eof"}
            /\ pos = r.pos
            /\ IF r.kind = "Io"
               THEN errs = {r.pos} /\ r.msg = input[r.pos]
               ELSE errs = {}
            /\ (last.op = "read_expr" /\ peek(input, last.from) = Some("(")) =>
                  LET j == NameEnd(input, last.from + 1)
                      name == Join(SubSeq(input, last.from + 2, j - 1))
                  IN  \/ j <= Len(input) /\ IsErr(input[j])
                      \/ name \in {"+", "if"}
                      \/ /\ r.kind = "Invalid"
                         /\ r.msg = "Unknown function '" \o name \o "'"
                         /\ r.pos = IF j <= Len(input) THEN j ELSE Len(input)
            /\ (last.op = "read_expr" /\ peek(input, last.from) = Some("-")) =>
                  \A k \in (last.from + 2)..Len(input) :
                      (/\ input[k] = "-"
                       /\ \A i \in (last.from + 2)..(k - 1) : input[i] \in Digits) =>
                          /\ r.kind = "Invalid"
                          /\ r.msg = "invalid number " \o Join(SubSeq(input, last.from + 1, k))
                          /\ r.pos = k

\* a stream error met inside a call: Io at once, the items after it untaken
C8_Witness ==
    /\ last.op = "read_expr"
    /\ last.res.kind = "Io"
    /\ last.res.pos >= 4
    /\ last.res.pos < Len(input)
    /\ input[1] = "("

\* C9: the loop of repl returns exactly when read_expr yields Eof; after any
\* other read error and after an evaluation error it reports the error and
\* reads on from where the read left the stream; every turn on a stream that
\* is not exhausted takes at least one item, so the loop goes on until it
\* reaches Eof and returns.
C9_LoopEndsAtEof ==
    /\ pc \in {"repl", "returned"}
    /\ pc = "returned" <=> (last.op = "repl" /\ last.res.kind = "Eof")
    /\ (last.op = "repl" /\ last.res.kind # "Eof") =>
          /\ pos = last.res.pos
          /\ pos > last.from
          /\ out # <<>>
          /\ last.res.kind \in {"Io", "Invalid", "Parse"} =>
                out[Len(out)] = "Error: " \o ReadError_fmt(last.res)
          /\ (last.res.kind = "Ok" /\ last.ev.out.kind = "Err") =>
                out[Len(out)] = "Error: " \o EvalError_fmt(last.ev.out)

\* C10: argument counts are checked nowhere: read_expr reads a call of any
\* number of parameters, and If.call panics on an out-of-range index, with no
\* EvalError, exactly when the position it needs is missing: args[0] of an
\* empty list, args[1] after a nonzero condition, args[2] after a zero one;
\* otherwise it returns what the branch returns.
C10_ArityUnchecked ==
    last.op = "repl" =>
        /\ last.from = 0 =>
              \A k \in 1..Len(input) :
                  SubSeq(input, 1, k) \in CallTextSet =>
                      /\ last.res.kind = "Ok"
                      /\ last.res.expr = TreeOf(SubSeq(input, 1, k))
        /\ (last.res.kind = "Ok" /\ last.res.expr.type = "Call"
                /\ last.res.expr.function = "If") =>
              LET args == last.res.expr.args
                  n == Len(args)
                  ev == last.ev
                  before == ev.log[1].env
              IN  /\ ev.out.kind # "Err"
                  /\ pc = "panicked" <=> ev.out.kind = "Panic"
                  /\ n = 0 => ev.out = IndexPanic(0, n)
                  /\ n >= 1 =>
                        LET c == eval(args[1], before, <<0>>)
                            need == IF c.out.val # 0 THEN 1 ELSE 2
                        IN  IF c.out.kind # "Ok" THEN ev.out = c.out
                            ELSE IF n < need + 1 THEN ev.out = IndexPanic(need, n)
                            ELSE ev.out = eval(args[need + 1], c.env, <<need>>).out

\* "(if 1)": read as a call of one parameter, then args[1] is out of range
C10_Witness ==
    /\ last.op = "repl"
    /\ input = <<"(", "i", "f", " ", "1", ")">>
    /\ last.res.kind = "Ok"
    /\ Len(last.res.expr.args) = 1
    /\ last.ev.out = IndexPanic(1, 1)
    /\ pc = "panicked"

=============================================================================
